---- MODULE Spec2Model ----
(***************************************************************************)
(* The two command-line scripts of Pashudhan Lens, setup.py and clean.py,  *)
(* as one state machine over the project directory.  A run starts either   *)
(* setup.py (main) or clean.py (clean_project); setup.py may start         *)
(* clean.py as a child from ask_cleanup.  Text is a sequence of one-       *)
(* character strings, so that strip(), lower() and the key=value block are *)
(* computed and not assumed.                                               *)
(***************************************************************************)
EXTENDS Integers, Sequences, FiniteSets, TLC

VARIABLES
    prog,       \* the script this run started: "setup" or "clean"
    pc,         \* the operation about to run, or "exited"
    fs,         \* the project directory: target path -> entry
    fs0,        \* fs when the run started
    pre,        \* fs before the last operation
    clean_py,   \* whether clean.py exists beside setup.py
    lines,      \* the raw lines the last operation read from stdin, in order
    probes,     \* results of the `node -v` commands run so far, in order
    verdict,    \* what check_node returned: "none" before it returns
    installed,  \* <<>> before `npm install` ends, then <<its return code>>
    launch,     \* how `npm run dev` ended: "none", "exit0", "interrupt", "nonzero"
    steps,      \* the operations run so far, in order
    out,        \* the messages printed so far, in order
    i,          \* clean_project's position in targets
    reports,    \* clean_project's per-target reports so far
    raised,     \* the targets whose removal raised, in this clean_project
    exit_code   \* <<>> while running, <<code>> once the process has ended

vars == <<prog, pc, fs, fs0, pre, clean_py, lines, probes, verdict, installed,
          launch, steps, out, i, reports, raised, exit_code>>

----------------------------------------------------------------------------
(* Bounds *)

MaxAnswerLen == 2
MaxSecretLen == 1
MaxDirEntries == 1

----------------------------------------------------------------------------
(* Text *)

Last(s) == s[Len(s)]

StringsUpTo(A, n) == UNION {[1..k -> A] : k \in 0..n}

IsSpace(c) == c \in {" ", "\t", "\n", "\r"}

\* str.strip(): drop leading and trailing whitespace
RECURSIVE LStrip(_)
LStrip(s) ==
    IF s # <<>> /\ IsSpace(Head(s)) THEN LStrip(Tail(s)) ELSE s

RECURSIVE RStrip(_)
RStrip(s) ==
    IF s # <<>> /\ IsSpace(Last(s)) THEN RStrip(SubSeq(s, 1, Len(s) - 1)) ELSE s

Strip(s) == RStrip(LStrip(s))

UpperCase == <<"A","B","C","D","E","F","G","H","I","J","K","L","M",
               "N","O","P","Q","R","S","T","U","V","W","X","Y","Z">>
LowerCase == <<"a","b","c","d","e","f","g","h","i","j","k","l","m",
               "n","o","p","q","r","s","t","u","v","w","x","y","z">>

LowerChar(c) ==
    IF \E k \in 1..Len(UpperCase) : UpperCase[k] = c
    THEN LowerCase[CHOOSE k \in 1..Len(UpperCase) : UpperCase[k] = c]
    ELSE c

\* str.lower()
Lower(s) == [k \in 1..Len(s) |-> LowerChar(s[k])]

\* input(...).strip().lower()
NormalizeAnswer(s) == Lower(Strip(s))

\* a looser test: startswith('y')
IsYesPrefix(s) == s # <<>> /\ s[1] = "y"

\* the test `!= 'y'` negated
IsYes(s) == s = <<"y">>

----------------------------------------------------------------------------
(* The filesystem *)

targets == <<"node_modules", "dist", ".env", ".env.vercel", ".husky">>

Paths == {targets[k] : k \in 1..Len(targets)}

Absent == [kind |-> "absent", content |-> <<>>, entries |-> 0]
File(c) == [kind |-> "file", content |-> c, entries |-> 0]
Dir(n) == [kind |-> "dir", content |-> <<>>, entries |-> n]

\* os.path.isfile in place of os.path.exists
IsFileOnly(e) == e.kind = "file"

\* os.path.exists / os.path.isdir
Exists(e) == e.kind # "absent"
IsDir(e) == e.kind = "dir"


\* the text of an environment file as setup_environment composes it
GEMINI_KEY == <<"V","I","T","E","_","G","E","M","I","N","I","_","A","P","I","_","K","E","Y">>
CLERK_KEY == <<"V","I","T","E","_","C","L","E","R","K","_","P","U","B","L","I","S","H","A","B","L","E","_","K","E","Y">>

\* the block with a space where the newline belongs
ContentOneLine(gemini_key, clerk_key) ==
    GEMINI_KEY \o <<"=">> \o gemini_key \o <<" ">> \o CLERK_KEY \o <<"=">> \o clerk_key

Content(gemini_key, clerk_key) ==
    GEMINI_KEY \o <<"=">> \o gemini_key \o <<"\n">> \o CLERK_KEY \o <<"=">> \o clerk_key

\* input(...).strip() of a secret
SecretValue(raw) == Strip(raw)

\* the guard testing the deployment copy instead of the primary file
EnvVercelFound(f) == f[".env.vercel"].kind # "absent"

\* the guard of the overwrite prompt
EnvFileFound(f) == Exists(f[".env"])

\* open(path, "w") raises on a directory
CanWrite(e) == ~IsDir(e)

----------------------------------------------------------------------------
(* Reading an environment file back: lines, and key and value of a line *)

RECURSIVE SplitLines(_)
SplitLines(s) ==
    IF \E k \in 1..Len(s) : s[k] = "\n"
    THEN LET k == CHOOSE k \in 1..Len(s) :
                      s[k] = "\n" /\ \A j \in 1..(k - 1) : s[j] # "\n"
         IN <<SubSeq(s, 1, k - 1)>> \o SplitLines(SubSeq(s, k + 1, Len(s)))
    ELSE <<s>>

HasEq(l) == \E k \in 1..Len(l) : l[k] = "="
FirstEq(l) == CHOOSE k \in 1..Len(l) : l[k] = "=" /\ \A j \in 1..(k - 1) : l[j] # "="
KeyOf(l) == SubSeq(l, 1, FirstEq(l) - 1)
ValueOf(l) == SubSeq(l, FirstEq(l) + 1, Len(l))

----------------------------------------------------------------------------
(* Inputs *)

AnswerChars == {"y", "Y", " "}
Yes == <<"y", "e", "s">>
Answers == StringsUpTo(AnswerChars, MaxAnswerLen) \cup {Yes}

SecretChars == {"k", " "}
Secrets == StringsUpTo(SecretChars, MaxSecretLen)

\* what is typed before Enter at a "Press Enter ..." prompt
Acks == {<<>>, <<"x">>}

OldContent == <<"A", "=", "1">>

\* the environment files are files (or, by accident, directories); the other
\* targets are directories
InitEntries(t) ==
    IF t \in {".env", ".env.vercel"}
    THEN {Absent, File(OldContent), Dir(MaxDirEntries)}
    ELSE {Absent, Dir(MaxDirEntries)}

----------------------------------------------------------------------------
(* Initial state *)

Init ==
    /\ prog \in {"setup", "clean"}
    /\ pc = IF prog = "setup" THEN "check_node" ELSE "clean_project"
    /\ fs \in {f \in [Paths -> UNION {InitEntries(t) : t \in Paths}] :
                 \A t \in Paths : f[t] \in InitEntries(t)}
    /\ fs0 = fs
    /\ pre = fs
    /\ clean_py \in (IF prog = "setup" THEN BOOLEAN ELSE {TRUE})
    /\ lines = <<>>
    /\ probes = <<>>
    /\ verdict = "none"
    /\ installed = <<>>
    /\ launch = "none"
    /\ steps = <<>>
    /\ out = <<>>
    /\ i = 1
    /\ reports = <<>>
    /\ raised = {}
    /\ exit_code = <<>>

\* the shape of the state
TypeOK ==
    /\ prog \in {"setup", "clean"}
    /\ pc \in {"check_node", "main", "install_dependencies", "setup_environment",
               "start_app", "ask_cleanup", "clean_project", "clean_target", "exited"}
    /\ \A t \in Paths : /\ fs[t].kind \in {"absent", "file", "dir"}
                        /\ fs[t].entries \in 0..MaxDirEntries
    /\ clean_py \in BOOLEAN
    /\ Len(lines) <= 3
    /\ Len(probes) <= 2
    /\ verdict \in {"none", "true", "false"}
    /\ installed \in {<<>>, <<0>>, <<1>>}
    /\ launch \in {"none", "exit0", "interrupt", "nonzero"}
    /\ i \in 1..(Len(targets) + 1)
    /\ Len(reports) <= Len(targets)
    /\ raised \subseteq Paths
    /\ exit_code \in {<<>>, <<0>>, <<1>>}
    /\ pc = "exited" <=> exit_code # <<>>

\* what every operation records
Step(name, read) ==
    /\ steps' = Append(steps, name)
    /\ lines' = read
    /\ pre' = fs
    /\ UNCHANGED <<prog, fs0, clean_py>>

Exit(code) ==
    /\ pc' = "exited"
    /\ exit_code' = <<code>>

----------------------------------------------------------------------------
(* setup.py *)

\* a re-check whose result is ignored
RecheckAssumed(second) == TRUE

\* check_node's return value after the re-check
Recheck(second) == second

check_node ==
    /\ pc = "check_node"
    /\ \E first \in BOOLEAN :
         \/ /\ first
            /\ probes' = Append(probes, TRUE)
            /\ out' = Append(out, "Node.js is installed")
            /\ verdict' = "true"
            /\ Step("check_node", <<>>)
         \/ /\ ~first
            /\ \E ack \in Acks, second \in BOOLEAN :
                 /\ probes' = probes \o <<FALSE, second>>
                 /\ out' = Append(out, "Node.js is NOT installed.")
                 /\ verdict' = IF Recheck(second) THEN "true" ELSE "false"
                 /\ Step("check_node", <<ack>>)
    /\ pc' = "main"
    /\ UNCHANGED <<fs, installed, launch, i, reports, raised, exit_code>>

\* a branch that only tests that check_node returned
NodeChecked(v) == v # "none"

\* main's branch on check_node()
NodeFound(v) == v = "true"

main ==
    /\ pc = "main"
    /\ \/ /\ NodeFound(verdict)
          /\ pc' = "install_dependencies"
          /\ out' = out
          /\ lines' = <<>>
          /\ exit_code' = exit_code
       \/ /\ ~NodeFound(verdict)
          /\ out' = Append(out, "Setup failed: Node.js is required.")
          /\ \E ack \in Acks : lines' = <<ack>>
          /\ Exit(0)
    /\ pre' = fs
    /\ UNCHANGED <<prog, fs, fs0, clean_py, probes, verdict, installed, launch,
                   steps, i, reports, raised>>

\* subprocess.call in place of check_call: the return code is dropped
NeverRaises(returncode) == FALSE

\* subprocess.check_call raises CalledProcessError on a non-zero return code
CalledProcessError(returncode) == returncode # 0

\* the project directory after a successful `npm install`
Installed(f) == [f EXCEPT !["node_modules"] = Dir(MaxDirEntries)]

install_dependencies ==
    /\ pc = "install_dependencies"
    /\ \E returncode \in {0, 1} :
         /\ installed' = <<returncode>>
         /\ \/ /\ ~CalledProcessError(returncode)
               /\ fs' = IF returncode = 0 THEN Installed(fs) ELSE fs
               /\ out' = Append(out, "dependencies installed!")
               /\ pc' = "setup_environment"
               /\ exit_code' = exit_code
            \/ /\ CalledProcessError(returncode)
               /\ fs' = fs
               /\ out' = Append(out, "Failed to install dependencies.")
               /\ Exit(1)
    /\ Step("install_dependencies", <<>>)
    /\ UNCHANGED <<probes, verdict, launch, i, reports, raised>>

setup_environment ==
    /\ pc = "setup_environment"
    /\ \/ \* existing configuration kept
          /\ EnvFileFound(fs)
          /\ \E reconfigure \in Answers :
               /\ ~IsYes(NormalizeAnswer(reconfigure))
               /\ Step("setup_environment", <<reconfigure>>)
          /\ out' = Append(out, "Found existing configuration.")
          /\ fs' = fs
          /\ pc' = "start_app"
          /\ exit_code' = exit_code
       \/ \* keys entered and written
          /\ \E reconfigure \in Answers, gemini \in Secrets, clerk \in Secrets :
               LET content == Content(SecretValue(gemini), SecretValue(clerk))
                   first == [fs EXCEPT ![".env"] = File(content)]
                   both == [first EXCEPT ![".env.vercel"] = File(content)]
               IN /\ \/ /\ EnvFileFound(fs)
                        /\ IsYes(NormalizeAnswer(reconfigure))
                        /\ Step("setup_environment", <<reconfigure, gemini, clerk>>)
                     \/ /\ ~EnvFileFound(fs)
                        /\ reconfigure = <<>>
                        /\ Step("setup_environment", <<gemini, clerk>>)
                  /\ \/ /\ ~CanWrite(fs[".env"])
                        /\ fs' = fs
                        /\ out' = Append(out, "IsADirectoryError")
                        /\ Exit(1)
                     \/ /\ CanWrite(fs[".env"])
                        /\ ~CanWrite(fs[".env.vercel"])
                        /\ fs' = first
                        /\ out' = Append(out, "IsADirectoryError")
                        /\ Exit(1)
                     \/ /\ CanWrite(fs[".env"])
                        /\ CanWrite(fs[".env.vercel"])
                        /\ fs' = both
                        /\ out' = Append(out, "Configuration saved!")
                        /\ pc' = "start_app"
                        /\ exit_code' = exit_code
    /\ UNCHANGED <<probes, verdict, installed, launch, i, reports, raised>>

\* a bare except in start_app
CaughtAny(outcome) == TRUE

\* the except clause of start_app
Caught(outcome) == outcome = "interrupt"

start_app ==
    /\ pc = "start_app"
    /\ \E outcome \in {"exit0", "interrupt", "nonzero"} :
         /\ launch' = outcome
         /\ \/ /\ outcome = "exit0"
               /\ out' = out
               /\ pc' = "ask_cleanup"
               /\ exit_code' = exit_code
            \/ /\ outcome # "exit0"
               /\ Caught(outcome)
               /\ out' = Append(out, "Stopped.")
               /\ pc' = "ask_cleanup"
               /\ exit_code' = exit_code
            \/ /\ outcome # "exit0"
               /\ ~Caught(outcome)
               /\ out' = Append(out, "Traceback")
               /\ Exit(1)
    /\ Step("start_app", <<>>)
    /\ UNCHANGED <<fs, probes, verdict, installed, i, reports, raised>>

ask_cleanup ==
    /\ pc = "ask_cleanup"
    /\ \E choice \in Answers :
         /\ Step("ask_cleanup", <<choice>>)
         /\ \/ /\ IsYes(NormalizeAnswer(choice))
               /\ clean_py
               /\ out' = out
               /\ pc' = "clean_project"
               /\ exit_code' = exit_code
            \/ /\ IsYes(NormalizeAnswer(choice))
               /\ ~clean_py
               /\ out' = Append(out, "clean.py not found.")
               /\ Exit(0)
            \/ /\ ~IsYes(NormalizeAnswer(choice))
               /\ out' = out
               /\ Exit(0)
    /\ UNCHANGED <<fs, probes, verdict, installed, launch, i, reports, raised>>

----------------------------------------------------------------------------
(* clean.py *)

clean_project ==
    /\ pc = "clean_project"
    /\ \E confirm \in Answers :
         /\ Step("clean_project", <<confirm>>)
         /\ \/ /\ ~IsYes(NormalizeAnswer(confirm))
               /\ out' = Append(out, "Operation cancelled.")
               /\ Exit(0)
            \/ /\ IsYes(NormalizeAnswer(confirm))
               /\ out' = Append(out, "Cleaning project...")
               /\ pc' = "clean_target"
               /\ exit_code' = exit_code
    /\ i' = 1
    /\ reports' = <<>>
    /\ raised' = {}
    /\ UNCHANGED <<fs, probes, verdict, installed, launch>>

\* what a removal that raised leaves behind: os.remove leaves the file,
\* shutil.rmtree the directory with any part of its contents
AfterFailure(e) ==
    IF IsDir(e) THEN {Dir(n) : n \in 0..e.entries} ELSE {e}

\* what os.remove and shutil.rmtree raise
RemovalErrors == {"PermissionError", "OSError"}

\* `except PermissionError` in the loop body
CaughtPermissionOnly(error) == error = "PermissionError"

\* `except Exception` in the loop body
CaughtInLoop(error) == error \in {"PermissionError", "OSError", "Exception"}

Report(target, status) == [target |-> target, status |-> status]

clean_target ==
    /\ pc = "clean_target"
    /\ i <= Len(targets)
    /\ LET target == targets[i] IN
         \/ /\ Exists(fs[target])
            /\ fs' = [fs EXCEPT ![target] = Absent]
            /\ reports' = Append(reports, Report(target, "removed"))
            /\ i' = i + 1
            /\ UNCHANGED <<pc, exit_code, out, raised>>
         \/ /\ Exists(fs[target])
            /\ \E left \in AfterFailure(fs[target]) :
                 fs' = [fs EXCEPT ![target] = left]
            /\ raised' = raised \cup {target}
            /\ \E error \in RemovalErrors :
                 IF CaughtInLoop(error)
                 THEN /\ reports' = Append(reports, Report(target, "failed"))
                      /\ i' = i + 1
                      /\ UNCHANGED <<pc, exit_code, out>>
                 ELSE /\ out' = Append(out, "Traceback")
                      /\ Exit(1)
                      /\ UNCHANGED <<reports, i>>
         \/ /\ ~Exists(fs[target])
            /\ fs' = fs
            /\ reports' = Append(reports, Report(target, "skipped"))
            /\ i' = i + 1
            /\ UNCHANGED <<pc, exit_code, out, raised>>
    /\ Step("clean_target", <<>>)
    /\ UNCHANGED <<probes, verdict, installed, launch>>

clean_finish ==
    /\ pc = "clean_target"
    /\ i > Len(targets)
    /\ out' = Append(out, "Project is now fresh and clean!")
    /\ Exit(0)
    /\ Step("clean_finish", <<>>)
    /\ UNCHANGED <<fs, probes, verdict, installed, launch, i, reports, raised>>

----------------------------------------------------------------------------

Next ==
    \/ check_node
    \/ main
    \/ install_dependencies
    \/ setup_environment
    \/ start_app
    \/ ask_cleanup
    \/ clean_project
    \/ clean_target
    \/ clean_finish

Spec == Init /\ [][Next]_vars

----------------------------------------------------------------------------
(* Properties *)

AfterStep(name) == steps # <<>> /\ Last(steps) = name

Ran(name) == \E k \in 1..Len(steps) : steps[k] = name

Printed(msg) == \E k \in 1..Len(out) : out[k] = msg

Y == <<"y">>

\* C1: when the answer to clean_project's confirmation prompt, trimmed and
\* lower-cased, is anything but "y", the run ends there with exit code 0:
\* every target is as it was before, and no removal was attempted or reported.
C1_CancelledCleanIsNoOp ==
    (AfterStep("clean_project") /\ NormalizeAnswer(lines[1]) # Y)
        => /\ fs = pre
           /\ pc = "exited"
           /\ exit_code = <<0>>
           /\ reports = <<>>
           /\ raised = {}

C1_Witness ==
    /\ AfterStep("clean_project")
    /\ lines = <<Yes>>
    /\ pc = "exited"
    /\ fs["dist"].kind = "dir"
    /\ fs[".env"].kind = "file"

\* C2: in a confirmed clean_project, every target whose removal raised is
\* reported "failed", every target processed so far has its own report in list
\* order, the loop can always go on, and the run only ends after all five
\* targets, through the final message, with exit code 0.
C2_FailureDoesNotAbortBatch ==
    (pc = "clean_target" \/ Ran("clean_target"))
        => /\ \A t \in raised :
                \E k \in 1..Len(reports) : reports[k] = [target |-> t, status |-> "failed"]
           /\ Len(reports) = i - 1
           /\ \A k \in 1..Len(reports) : reports[k].target = targets[k]
           /\ pc = "clean_target" => ENABLED (clean_target \/ clean_finish)
           /\ pc # "clean_target"
                => /\ pc = "exited"
                   /\ AfterStep("clean_finish")
                   /\ Len(reports) = Len(targets)
                   /\ exit_code = <<0>>

C2_Witness ==
    /\ pc = "exited"
    /\ AfterStep("clean_finish")
    /\ raised = {"node_modules", ".env"}
    /\ reports[1].status = "failed"
    /\ reports[2].status = "removed"
    /\ reports[3].status = "failed"
    /\ reports[4].status = "skipped"
    /\ reports[5].status = "removed"

C3_Order == <<"node_modules", "dist", ".env", ".env.vercel", ".husky">>

\* C3: a confirmed clean_project reports the five targets in list order, one
\* report each: "skipped" exactly when the target did not exist, "removed" when
\* it existed and the removal did not raise, "failed" exactly when the removal
\* raised; a target reported "removed" or "skipped" does not exist afterwards,
\* and the finished run has five reports and exit code 0.
C3_ReportsAndRemovals ==
    (pc = "clean_target" \/ AfterStep("clean_finish"))
        => /\ Len(reports) = i - 1
           /\ Len(reports) <= Len(C3_Order)
           /\ \A k \in 1..Len(reports) :
                /\ reports[k].target = C3_Order[k]
                /\ reports[k].status \in {"removed", "failed", "skipped"}
                /\ reports[k].status \in {"removed", "skipped"}
                     => fs[C3_Order[k]].kind = "absent"
                /\ reports[k].status = "failed" <=> C3_Order[k] \in raised
           /\ AfterStep("clean_target")
                => LET r == Last(reports)
                   IN /\ r.status = "skipped" <=> pre[r.target].kind = "absent"
                      /\ r.status = "removed"
                           => pre[r.target].kind # "absent" /\ r.target \notin raised
                      /\ \A t \in Paths \ {r.target} : fs[t] = pre[t]
           /\ AfterStep("clean_finish")
                => /\ pc = "exited"
                   /\ exit_code = <<0>>
                   /\ Len(reports) = Len(C3_Order)

C3_Witness ==
    /\ prog = "clean"
    /\ pc = "exited"
    /\ AfterStep("clean_finish")
    /\ fs0["node_modules"].kind = "absent"
    /\ fs0["dist"] = Dir(MaxDirEntries)
    /\ fs0[".env"].kind = "file"
    /\ reports[1].status = "skipped"
    /\ reports[2].status = "removed"
    /\ reports[3].status = "removed"
    /\ fs["dist"].kind = "absent"

\* C4: when .env exists and the answer to the overwrite prompt, trimmed and
\* lower-cased, is anything but "y", setup_environment reads nothing more and
\* returns with every file as it was.
C4_KeptConfigurationIsNoOp ==
    (/\ AfterStep("setup_environment")
     /\ pre[".env"].kind # "absent"
     /\ NormalizeAnswer(lines[1]) # Y)
        => /\ fs = pre
           /\ Len(lines) = 1
           /\ pc = "start_app"

C4_Witness ==
    /\ AfterStep("setup_environment")
    /\ pre[".env"] = File(OldContent)
    /\ pre[".env.vercel"] = File(OldContent)
    /\ lines = <<<<>>>>
    /\ pc = "start_app"

\* what C5 asks of a written environment file, given the two values
C5_TwoKeys(e, gemini, clerk) ==
    /\ e.kind = "file"
    /\ LET ls == SplitLines(e.content)
       IN /\ Len(ls) = 2
          /\ HasEq(ls[1]) /\ KeyOf(ls[1]) = GEMINI_KEY /\ ValueOf(ls[1]) = gemini
          /\ HasEq(ls[2]) /\ KeyOf(ls[2]) = CLERK_KEY /\ ValueOf(ls[2]) = clerk

C5_Written ==
    /\ AfterStep("setup_environment")
    /\ pc = "start_app"
    /\ Len(lines) >= 2

\* C5 as stated: after a completed write, .env and .env.vercel are equal and
\* hold the two keys, in order, once each, with the values as they were entered.
C5_ValuesAsEntered ==
    C5_Written
        => /\ fs[".env"] = fs[".env.vercel"]
           /\ C5_TwoKeys(fs[".env"], lines[Len(lines) - 1], lines[Len(lines)])

\* C5 as amended: after a completed write, .env and .env.vercel are equal and
\* hold exactly two lines, the two keys in order, each with the entered value
\* stripped of leading and trailing whitespace.
C5_ValuesStripped ==
    C5_Written
        => /\ fs[".env"] = fs[".env.vercel"]
           /\ C5_TwoKeys(fs[".env"], Strip(lines[Len(lines) - 1]),
                         Strip(lines[Len(lines)]))

C5_Witness ==
    /\ C5_Written
    /\ pre[".env"] = File(OldContent)
    /\ pre[".env.vercel"] = Absent
    /\ lines = <<<<"Y">>, <<>>, <<>>>>
    /\ fs[".env"].content = GEMINI_KEY \o <<"=", "\n">> \o CLERK_KEY \o <<"=">>

\* C6: when `npm install` returns non-zero the process ends with a non-zero
\* exit code right after install_dependencies: nothing was read from stdin, no
\* file changed, the server was not started and no cleanup ran.
C6_InstallFailureIsFatal ==
    (installed # <<>> /\ installed[1] # 0)
        => /\ pc = "exited"
           /\ exit_code # <<>> /\ exit_code[1] # 0
           /\ steps = <<"check_node", "install_dependencies">>
           /\ fs = fs0
           /\ lines = <<>>
           /\ launch = "none"
           /\ reports = <<>>

C6_Witness ==
    /\ installed = <<1>>
    /\ pc = "exited"
    /\ exit_code = <<1>>
    /\ Printed("Failed to install dependencies.")

\* C7: check_node runs `node -v` once when it succeeds and twice when the first
\* run fails, never more; it reads the acknowledgment exactly in the second
\* case; its verdict is positive exactly when the last probe succeeded.
C7_AtMostOneRecheck ==
    verdict # "none"
        => /\ Len(probes) \in {1, 2}
           /\ probes[1] => probes = <<TRUE>>
           /\ ~probes[1] => Len(probes) = 2
           /\ verdict = "true" <=> Last(probes)
           /\ pc = "main" => Len(lines) = (IF probes[1] THEN 0 ELSE 1)

C7_Witness ==
    /\ probes = <<FALSE, FALSE>>
    /\ verdict = "false"
    /\ pc = "main"
    /\ Len(lines) = 1

C8_Order ==
    <<"check_node", "install_dependencies", "setup_environment", "start_app",
      "ask_cleanup">>

\* C8: after a negative verdict nothing but check_node has run, no file has
\* changed and the process ends with exit code 0 after the failure message;
\* and the operations of setup.py run in the order check_node,
\* install_dependencies, setup_environment, start_app, ask_cleanup, none of
\* them after a verdict that is not positive.
C8_GatedByToolchain ==
    prog = "setup"
        => /\ verdict = "false"
                => /\ steps = <<"check_node">>
                   /\ fs = fs0
                   /\ installed = <<>>
                   /\ launch = "none"
                   /\ pc = "exited"
                        => /\ exit_code = <<0>>
                           /\ Last(out) = "Setup failed: Node.js is required."
           /\ \A k \in 1..Len(steps) : k <= Len(C8_Order) => steps[k] = C8_Order[k]
           /\ Len(steps) >= 2 => verdict = "true"

C8_Witness ==
    /\ prog = "setup"
    /\ verdict = "false"
    /\ pc = "exited"
    /\ fs[".env"].kind = "absent"

\* C9: after an interrupt of the running server start_app has printed
\* "Stopped." and returned, ask_cleanup is next or has run, and the process
\* ends with exit code 0; after a non-zero exit of the server the process has
\* ended inside start_app with a non-zero exit code and ask_cleanup never ran.
C9_InterruptIsNormalExit ==
    /\ launch = "interrupt"
         => /\ Printed("Stopped.")
            /\ pc = "ask_cleanup" \/ Ran("ask_cleanup")
            /\ pc = "exited" => exit_code = <<0>>
    /\ launch = "nonzero"
         => /\ pc = "exited"
            /\ exit_code # <<>> /\ exit_code[1] # 0
            /\ AfterStep("start_app")
            /\ ~Ran("ask_cleanup")
            /\ ~Printed("Stopped.")

C9_Witness ==
    /\ launch = "interrupt"
    /\ pc = "exited"
    /\ AfterStep("ask_cleanup")
    /\ exit_code = <<0>>

EnvFiles == {".env", ".env.vercel"}

\* C10: setup_environment changes an environment file that existed only after
\* the overwrite prompt was shown and answered "y".
C10_NoOverwriteWithoutConsent ==
    AfterStep("setup_environment")
        => \A f \in EnvFiles :
             (pre[f].kind # "absent" /\ fs[f] # pre[f])
                 => Len(lines) = 3 /\ NormalizeAnswer(lines[1]) = Y

====
